---------------------------- MODULE Spec2Model ----------------------------
(***************************************************************************)
(* modpack-downloader: src/index.ts (the bounded variant, promiseLimit(6), *)
(* directory entries, outer try/catch) and src/unnamed/part_000 (the       *)
(* simple variant: the compiled output of an earlier revision, unbounded,  *)
(* no directory branch, no try/catch).                                     *)
(*                                                                         *)
(* Strings are sequences of one-character strings, so that the URL parser  *)
(* works on the text of the argument.                                      *)
(***************************************************************************)
EXTENDS Integers, Sequences, FiniteSets, TLC

(***************************************************************************)
(* Bounds of the model.                                                    *)
(***************************************************************************)
\* longest addonId / fileId text enumerated for the argument parser
MaxIdLen == 3
\* largest manifest (more than downloadLimitCount, so that jobs queue)
MaxK == 7
\* largest manifest for which every assignment of fileName values is tried
MaxNamedK == 2
\* number of distinct remote fileName values
MaxNames == 2

(***************************************************************************)
(* Text helpers.                                                           *)
(***************************************************************************)
RECURSIVE IndexFrom(_, _, _)
\* least index i >= from with s[i] \in cs, or 0
IndexFrom(s, cs, from) ==
    IF from > Len(s) THEN 0
    ELSE IF s[from] \in cs THEN from
    ELSE IndexFrom(s, cs, from + 1)

IndexOf(s, cs) == IndexFrom(s, cs, 1)

RECURSIVE LastIndexOf(_, _, _)
\* greatest index i <= upto with s[i] = c, or 0
LastIndexOf(s, c, upto) ==
    IF upto < 1 THEN 0
    ELSE IF s[upto] = c THEN upto
    ELSE LastIndexOf(s, c, upto - 1)

Slice(s, a, b) == IF a > b THEN << >> ELSE SubSeq(s, a, b)

StartsWith(s, p) == Len(s) >= Len(p) /\ SubSeq(s, 1, Len(p)) = p

SeqsUpTo(S, n) == UNION { [1..k -> S] : k \in 0..n }

(***************************************************************************)
(* new URL(text) for a scheme that is not one of the special schemes       *)
(* (WHATWG URL: scheme, "//" authority, path, "?" query, "#" fragment),    *)
(* and URLSearchParams.get.                                                *)
(***************************************************************************)
Lower == {"a","c","d","e","f","g","h","i","l","n","o","p","r","s","t","u"}
Upper == {"C","I","F"}
Digits == {"1","2","3"}
SchemeChars == Lower \cup Upper \cup Digits \cup {"+", "-", "."}
\* code points an opaque host may not contain
ForbiddenHost == {" ", "#", "/", "<", ">", "?", "@", "[", "\\", "]", "^", "|"}

ToLower(c) == CASE c = "C" -> "c" [] c = "I" -> "i" [] c = "F" -> "f" [] OTHER -> c

LowerCase(s) == [i \in 1..Len(s) |-> ToLower(s[i])]

InvalidURL == [ok |-> FALSE, protocol |-> << >>, hostname |-> << >>, query |-> << >>]

\* the part of the URL after "scheme:": authority (when it starts with "//"),
\* then the query between the first "?" and the first "#"
ParseAfterScheme(protocol, rest) ==
    LET hasAuth  == StartsWith(rest, <<"/", "/">>)
        afterSl  == IF hasAuth THEN Slice(rest, 3, Len(rest)) ELSE rest
        authEnd  == IndexOf(afterSl, {"/", "?", "#"})
        auth     == IF ~hasAuth THEN << >>
                    ELSE IF authEnd = 0 THEN afterSl
                    ELSE Slice(afterSl, 1, authEnd - 1)
        tail     == IF ~hasAuth THEN rest
                    ELSE IF authEnd = 0 THEN << >>
                    ELSE Slice(afterSl, authEnd, Len(afterSl))
        at       == LastIndexOf(auth, "@", Len(auth))
        hostport == Slice(auth, at + 1, Len(auth))
        colon    == IndexOf(hostport, {":"})
        host     == IF colon = 0 THEN hostport ELSE Slice(hostport, 1, colon - 1)
        port     == IF colon = 0 THEN << >> ELSE Slice(hostport, colon + 1, Len(hostport))
        hash     == IndexOf(tail, {"#"})
        noFrag   == IF hash = 0 THEN tail ELSE Slice(tail, 1, hash - 1)
        qm       == IndexOf(noFrag, {"?"})
        query    == IF qm = 0 THEN << >> ELSE Slice(noFrag, qm + 1, Len(noFrag))
    IN  IF \/ \E i \in 1..Len(host) : host[i] \in ForbiddenHost
           \/ \E i \in 1..Len(port) : port[i] \notin Digits
           \/ (at > 0 \/ colon > 0) /\ host = << >>
        THEN InvalidURL
        ELSE [ok |-> TRUE, protocol |-> protocol, hostname |-> host, query |-> query]

ParseURL(text) ==
    LET colon == IndexOf(text, {":"})
        scheme == Slice(text, 1, colon - 1)
    IN  IF \/ colon < 2
           \/ scheme[1] \notin (Lower \cup Upper)
           \/ \E i \in 1..Len(scheme) : scheme[i] \notin SchemeChars
        THEN InvalidURL
        ELSE ParseAfterScheme(LowerCase(scheme) \o <<":">>,
                              Slice(text, colon + 1, Len(text)))

HexDigits == Digits
HexVal(c) == CASE c = "1" -> 1 [] c = "2" -> 2 [] c = "3" -> 3 [] OTHER -> 0

\* the character of a decoded byte (bytes outside the table are control
\* characters, which no identifier of the model contains)
ByteChar(b) ==
    CASE b = 49 -> "1" [] b = 50 -> "2" [] b = 51 -> "3"
      [] b = 33 -> "!" [] b = 34 -> "\"" [] b = 35 -> "#" [] OTHER -> "^"

RECURSIVE FormDecode(_)
\* application/x-www-form-urlencoded decoding: "+" is a space, %XX is a byte
FormDecode(s) ==
    IF s = << >> THEN << >>
    ELSE IF s[1] = "+" THEN <<" ">> \o FormDecode(Tail(s))
    ELSE IF s[1] = "%" /\ Len(s) >= 3 /\ s[2] \in HexDigits /\ s[3] \in HexDigits
         THEN <<ByteChar(16 * HexVal(s[2]) + HexVal(s[3]))>>
              \o FormDecode(Slice(s, 4, Len(s)))
    ELSE <<s[1]>> \o FormDecode(Tail(s))

RECURSIVE SplitOn(_, _)
\* the pieces of s between occurrences of c
SplitOn(s, c) ==
    LET i == IndexOf(s, {c})
    IN  IF i = 0 THEN <<s>>
        ELSE <<Slice(s, 1, i - 1)>> \o SplitOn(Slice(s, i + 1, Len(s)), c)

\* one "name=value" piece as a decoded pair
ParsePair(piece) ==
    LET eq == IndexOf(piece, {"="})
    IN  IF eq = 0 THEN [name |-> FormDecode(piece), value |-> << >>]
        ELSE [name  |-> FormDecode(Slice(piece, 1, eq - 1)),
              value |-> FormDecode(Slice(piece, eq + 1, Len(piece)))]

\* the list of pairs of a query; empty pieces are skipped
SearchParams(query) ==
    LET pieces == SplitOn(query, "&")
        kept   == SelectSeq(pieces, LAMBDA p : p # << >>)
    IN  [i \in 1..Len(kept) |-> ParsePair(kept[i])]

Null == <<"null">>

\* URLSearchParams.get: the value of the first pair of that name, or null
SearchParamsGet(params, name) ==
    LET hits == SelectSeq(params, LAMBDA p : p.name = name)
    IN  IF hits = << >> THEN Null ELSE hits[1].value

(***************************************************************************)
(* parseCommandLineArgs                                                    *)
(***************************************************************************)
CURSEFORGE == <<"c","u","r","s","e","f","o","r","g","e">>
INSTALL    == <<"i","n","s","t","a","l","l">>
ADDONID    == <<"a","d","d","o","n","I","d">>
FILEID     == <<"f","i","l","e","I","d">>
HELP       == <<"-","-","h","e","l","p">>

\* !x for a string or undefined/null
FalsyUndefinedOnly(s) == s = Null
Falsy(s) == s = << >> \/ s = Null

NoArgs == [targetDir |-> << >>, addonId |-> << >>, fileId |-> << >>]

\* the scheme/host test of src/index.ts lines 21-25
BadSchemeOrHost(url) ==
    url.protocol # CURSEFORGE \o <<":">> \/ url.hostname # INSTALL

\* the test of addonId alone
BadParamsAddonOnly(addonId, fileId) == Falsy(addonId)

\* the parameter test of line 29
BadParams(addonId, fileId) == Falsy(addonId) \/ Falsy(fileId)

\* kind: "usage" (printUsage, process.exit(1)), "throw" (an Error or the
\* TypeError of new URL) or "ok" with the returned record
parseCommandLineArgs(argv) ==
    IF Falsy(argv.url) \/ argv.url = HELP \/ Falsy(argv.targetDir)
    THEN [kind |-> "usage", args |-> NoArgs]
    ELSE LET url == ParseURL(argv.url)
             params == SearchParams(url.query)
             addonId == SearchParamsGet(params, ADDONID)
             fileId  == SearchParamsGet(params, FILEID)
         IN  IF ~url.ok THEN [kind |-> "throw", args |-> NoArgs]
             ELSE IF BadSchemeOrHost(url) THEN [kind |-> "throw", args |-> NoArgs]
             ELSE IF BadParams(addonId, fileId) THEN [kind |-> "throw", args |-> NoArgs]
             ELSE [kind |-> "ok",
                   args |-> [targetDir |-> argv.targetDir,
                             addonId |-> addonId, fileId |-> fileId]]

(***************************************************************************)
(* The inputs of a run: the command line, the archive the service serves   *)
(* and the fileName the metadata service returns for each manifest entry.  *)
(***************************************************************************)
AllNames == <<"a.jar", "b.jar", "c.jar", "d.jar", "e.jar",
              "f.jar", "g.jar", "h.jar", "i.jar", "j.jar">>

\* an entry of the overrides subtree: its path relative to overrides/, as
\* segments, and JSZipObject.dir
DirEntry(p)  == [path |-> p, dir |-> TRUE]
FileEntry(p) == [path |-> p, dir |-> FALSE]

\* the archive has no overrides/ entry at all
NoOverrides == <<[path |-> <<"-">>, dir |-> FALSE]>>

OverridesBasic == <<DirEntry(<<"config">>), FileEntry(<<"config", "a.cfg">>)>>

OverrideSets ==
    { NoOverrides,
      << >>,
      OverridesBasic,
      <<FileEntry(<<"b.txt">>), FileEntry(<<"mods", "a.jar">>)>>,
      <<DirEntry(<<"empty">>), FileEntry(<<"b.txt">>)>>,
      <<FileEntry(<<"config", "a.cfg">>), DirEntry(<<"saves">>)>> }

\* manifests up to MaxK entries with distinct file names (tried with the
\* bounded variant, where jobs queue), and manifests up to MaxNamedK entries
\* with every assignment of MaxNames file names, with and without
\* manifest.json, over every overrides subtree above
LargeArchives ==
    { [manifest |-> TRUE, K |-> k, fileName |-> [i \in 1..k |-> AllNames[i]],
       overrides |-> OverridesBasic] : k \in 0..MaxK }

SmallArchives ==
    UNION { { [manifest |-> m, K |-> k, fileName |-> f, overrides |-> o] :
                m \in BOOLEAN,
                f \in [1..k -> {AllNames[n] : n \in 1..MaxNames}],
                o \in OverrideSets } : k \in 0..MaxNamedK }

TARGET == <<"t">>
HTTP == <<"h", "t", "t", "p">>

\* the text scheme://host?addonId=X&fileId=Y; a part that is Null is left out
Param(name, value) == IF value = Null THEN << >> ELSE <<name \o <<"=">> \o value>>

RECURSIVE Join(_, _)
Join(pieces, sep) ==
    IF pieces = << >> THEN << >>
    ELSE IF Len(pieces) = 1 THEN pieces[1]
    ELSE pieces[1] \o <<sep>> \o Join(Tail(pieces), sep)

BuildURL(p) ==
    p.scheme \o <<":", "/", "/">> \o p.host \o <<"?">>
    \o Join(Param(ADDONID, p.addonId) \o Param(FILEID, p.fileId), "&")

Parts(scheme, host, addonId, fileId) ==
    [scheme |-> scheme, host |-> host, addonId |-> addonId, fileId |-> fileId]

Argv(p, targetDir) == [url |-> BuildURL(p), targetDir |-> targetDir]

\* curseforge://install?addonId=1&fileId=2
ValidParts == Parts(CURSEFORGE, INSTALL, <<"1">>, <<"2">>)
\* http://install?addonId=1&fileId=2
BadParts == Parts(HTTP, INSTALL, <<"1">>, <<"2">>)
\* no URL was written (--help)
NoParts == Parts(<< >>, << >>, Null, Null)
HelpArgv == [url |-> HELP, targetDir |-> << >>]

\* the command lines of the runs
RunParts == {ValidParts, BadParts}

\* the command lines that lack the URI or the target directory, or ask for
\* help: no argument at all, an empty URI, --help with and without a target,
\* and a URI of each kind with no target
UsageArgvs ==
    { [uri |-> NoParts, argv |-> [url |-> u, targetDir |-> t]] :
        u \in {Null, << >>, HELP}, t \in {Null, << >>, TARGET} }
    \cup
    { [uri |-> p, argv |-> Argv(p, t)] : p \in RunParts, t \in {Null, << >>} }

\* the command lines tried on parseCommandLineArgs: every identifier text up
\* to MaxIdLen characters in a well-formed URI, present or absent, and every
\* scheme and host with plain identifiers, with and without a target
IdChars == {"1", "a", "+", "&", "#", "%"}
FileIdChars == {"2", "+"}
Schemes == {CURSEFORGE, HTTP, <<"C">> \o Tail(CURSEFORGE)}
Hosts == {INSTALL, <<"I">> \o Tail(INSTALL), <<"i","n","s","t","a","l">>}

ParseParts ==
    { Parts(CURSEFORGE, INSTALL, x, y) :
        x \in SeqsUpTo(IdChars, MaxIdLen) \cup {Null},
        y \in SeqsUpTo(FileIdChars, MaxIdLen) \cup {Null} }
    \cup
    { Parts(s, h, x, y) : s \in Schemes, h \in Hosts,
                          x \in {<<"1">>, Null}, y \in {<<"2">>, Null} }

(***************************************************************************)
(* State.                                                                  *)
(***************************************************************************)
VARIABLES
    variant,          \* "bounded" (src/index.ts) or "simple" (part_000)
    argv,             \* process.argv: [url, targetDir]
    uri,              \* the parts argv.url was written from
    archive,          \* the archive the service serves
    pc,               \* where the top-level async function is
    args,             \* what parseCommandLineArgs returned
    task,             \* task[i]: the download task of manifest entry i
    jobs,             \* promise-limit: the queued jobs, oldest first
    outstanding,      \* promise-limit: the jobs running
    batch,            \* Promise.all(promises): none, pending, resolved, rejected
    downloadedCount,  \* the shared progress counter
    stderr,           \* the lines written with process.stderr.write, in order
    files,            \* the files written to completion under the target
    dirs,             \* the directories under the target directory
    open,             \* the write streams created and not yet closed
    ovIdx,            \* expandOverrides: the entry of the for loop
    error,            \* the error thrown to the top level, or "none"
    exitCode          \* the code the process ended with, or "none"

\* the inputs of the run, which no step changes
env == <<variant, argv, uri, archive>>

vars == <<variant, argv, uri, archive, pc, args, task, jobs, outstanding, batch,
          downloadedCount, stderr, files, dirs, open, ovIdx, error, exitCode>>

\* promiseLimit(6)
downloadLimitCount == 6

Tasks == 1..archive.K

Line(kind, n, of) == [kind |-> kind, n |-> n, of |-> of]

InFlightStates == {"meta", "fetch", "pipe"}
InFlight == {i \in Tasks : task[i] \in InFlightStates}
Queued == {i \in Tasks : task[i] = "queued"}
Failed == {i \in Tasks : task[i] = "failed"}
Done == {i \in Tasks : task[i] = "done"}

\* the process is alive and its event loop runs callbacks
Alive == pc \notin {"exit", "crashed"}

(***************************************************************************)
(* promise-limit (src/index.ts line 57): limit(fn) runs fn when fewer than *)
(* count jobs are outstanding and queues it otherwise; when a job settles, *)
(* fulfilled or rejected, remove() takes the oldest queued job and runs it *)
(***************************************************************************)
\* the limit tested one too late
LimitReachedLate(n) == n > downloadLimitCount

LimitReached(n) == n >= downloadLimitCount

\* downloadLimit(fn) for manifest entry i; running fn issues
\* fetchModFileInfo and suspends at the first await
Submit(st, i) ==
    IF variant = "bounded" /\ LimitReached(st.outstanding)
    THEN [st EXCEPT !.task[i] = "queued", !.jobs = Append(@, i)]
    ELSE [st EXCEPT !.task[i] = "meta",
                    !.outstanding = IF variant = "bounded" THEN @ + 1 ELSE @]

RECURSIVE SubmitAll(_, _, _)
\* manifest.files.map(...): the entries in manifest order
SubmitAll(st, i, k) == IF i > k THEN st ELSE SubmitAll(Submit(st, i), i + 1, k)

\* remove() that does not dequeue: a queued job is never started
RemoveOnly(st) ==
    IF variant # "bounded" THEN [st EXCEPT !.next = {}]
    ELSE [st EXCEPT !.outstanding = @ - 1, !.next = {}]

\* remove(): a job settled; dequeue() starts the oldest queued job.
\* next is the set of the job started, empty if none
Remove(st) ==
    IF variant # "bounded" THEN [st EXCEPT !.next = {}]
    ELSE IF st.outstanding - 1 < downloadLimitCount /\ st.jobs # << >>
    THEN [st EXCEPT !.task[Head(st.jobs)] = "meta", !.jobs = Tail(@),
                    !.next = {Head(st.jobs)}]
    ELSE [st EXCEPT !.outstanding = @ - 1, !.next = {}]

Limiter == [task |-> task, jobs |-> jobs, outstanding |-> outstanding, next |-> {}]

(***************************************************************************)
(* Paths.                                                                  *)
(***************************************************************************)
\* dirname(path)
Dirname(p) == Slice(p, 1, Len(p) - 1)
\* mkdir(path, {recursive: true}): the directory and its ancestors
MkdirRecursive(p) == {SubSeq(p, 1, k) : k \in 1..Len(p)}
MODS == <<"mods">>
\* the file named after the position of the entry
ModPathByIndex(i) == MODS \o <<AllNames[i]>>

\* join(targetDir, "mods", modInfo.fileName)
ModPath(i) == MODS \o <<archive.fileName[i]>>

(***************************************************************************)
(* JSZip: file(name) is null when the archive has no such entry;           *)
(* folder(name) adds the folder when the archive has none and returns the  *)
(* archive rooted there, never null; forEach enumerates the entries below  *)
(* the root in archive order.                                              *)
(***************************************************************************)
NullObject == [null |-> TRUE]
\* the lookup never null
JSZipFileAlways(a) == [null |-> FALSE]

JSZipFile(a) == IF a.manifest THEN [null |-> FALSE] ELSE NullObject
JSZipFolder(a) ==
    [null |-> FALSE,
     entries |-> IF a.overrides = NoOverrides THEN << >> ELSE a.overrides]
Entries == JSZipFolder(archive).entries

(***************************************************************************)
(* The top level (src/index.ts lines 147-165, part_000 lines 89-99).       *)
(***************************************************************************)
\* an error reaches the top level: caught and logged with console.error by
\* index.ts (pc "caught"), an unhandled rejection in part_000 ("uncaught")
Throw(msg) ==
    /\ pc' = IF variant = "bounded" THEN "caught" ELSE "uncaught"
    /\ error' = msg
    /\ stderr' = stderr

\* a loop that returns after its first entry
LoopAtFirstOnly(n, out) ==
    IF n > 1 \/ n > Len(Entries)
    THEN /\ pc' = "finished"
         /\ ovIdx' = n
         /\ stderr' = Append(out, Line("finish", 0, 0))
         /\ error' = error
    ELSE /\ pc' = "ovMkdir"
         /\ ovIdx' = n
         /\ stderr' = out
         /\ error' = error

\* the for loop of expandOverrides reaches entry n: it issues the mkdir of
\* the entry, or returns after the last one and the top level prints Finish!
LoopAt(n, out) ==
    IF n > Len(Entries)
    THEN /\ pc' = "finished"
         /\ ovIdx' = n
         /\ stderr' = Append(out, Line("finish", 0, 0))
         /\ error' = error
    ELSE /\ pc' = "ovMkdir"
         /\ ovIdx' = n
         /\ stderr' = out
         /\ error' = error

\* downloadMods returned: expandOverrides runs up to its first await
ExpandOverridesStart(out) ==
    LET out1 == Append(out, Line("expanding", 0, 0))
    IN  IF JSZipFolder(archive).null
        THEN /\ Throw("missing overrides in modpack zip")
             /\ ovIdx' = ovIdx
        ELSE LoopAt(1, out1)

CloseNothing(handle) == open
\* finally { file.close() }: the handles left open
Close(handle) == open \ {handle}

ParseArgs ==
    /\ pc = "start"
    /\ LET r == parseCommandLineArgs(argv)
       IN  \/ /\ r.kind = "usage"
              /\ pc' = "exit"
              /\ stderr' = Append(stderr, Line("usage", 0, 0))
              /\ exitCode' = 1
              /\ UNCHANGED <<args, error>>
           \/ /\ r.kind = "throw"
              /\ Throw("bad url")
              /\ UNCHANGED <<args, exitCode>>
           \/ /\ r.kind = "ok"
              /\ pc' = "fetchInfo"
              /\ args' = r.args
              /\ UNCHANGED <<stderr, error, exitCode>>
    /\ UNCHANGED <<env, task, jobs, outstanding, batch,
                   downloadedCount, files, dirs, open, ovIdx>>

\* await fetchModFileInfo(args.addonId, args.fileId)
FetchInfoOk ==
    /\ pc = "fetchInfo"
    /\ pc' = "fetchZip"
    /\ stderr' = stderr \o <<Line("name", 0, 0), Line("zip", 0, 0)>>
    /\ UNCHANGED <<env, exitCode, args, task, jobs, outstanding, batch,
                   downloadedCount, files, dirs, open, ovIdx, error>>

FetchInfoFail ==
    /\ pc = "fetchInfo"
    /\ Throw("io")
    /\ UNCHANGED <<env, exitCode, args, task, jobs, outstanding, batch,
                   downloadedCount, files, dirs, open, ovIdx>>

\* await downloadModpack(modpackInfo); downloadMods then issues mkdir mods
FetchZipOk ==
    /\ pc = "fetchZip"
    /\ pc' = "mkdirMods"
    /\ stderr' = Append(stderr, Line("done", 0, 0))
    /\ UNCHANGED <<env, exitCode, args, task, jobs, outstanding, batch,
                   downloadedCount, files, dirs, open, ovIdx, error>>

FetchZipFail ==
    /\ pc = "fetchZip"
    /\ Throw("io")
    /\ UNCHANGED <<env, exitCode, args, task, jobs, outstanding, batch,
                   downloadedCount, files, dirs, open, ovIdx>>

(***************************************************************************)
(* downloadMods (src/index.ts lines 58-97, part_000 lines 35-61).          *)
(***************************************************************************)
\* mkdir mods resolved; manifest.json is looked up
MkdirModsOk ==
    /\ pc = "mkdirMods"
    /\ dirs' = dirs \cup MkdirRecursive(MODS)
    /\ IF JSZipFile(archive).null
       THEN Throw("invalid modpack")
       ELSE /\ pc' = "readManifest"
            /\ UNCHANGED <<stderr, error>>
    /\ UNCHANGED <<env, exitCode, args, task, jobs, outstanding, batch,
                   downloadedCount, files, open, ovIdx>>

MkdirModsFail ==
    /\ pc = "mkdirMods"
    /\ Throw("io")
    /\ UNCHANGED <<env, exitCode, args, task, jobs, outstanding, batch,
                   downloadedCount, files, dirs, open, ovIdx>>

\* manifestData.async("text") resolved: the manifest is parsed, the tasks
\* are created and Promise.all is awaited (it is fulfilled at once for an
\* empty manifest)
DownloadingLineUnlessEmpty(fileCount) ==
    IF fileCount = 0 THEN << >>
    ELSE <<Line("downloading", fileCount, fileCount)>>
\* process.stderr.write(`Downloading ${fileCount} files...\n`)
DownloadingLine(fileCount) == <<Line("downloading", fileCount, fileCount)>>

ReadManifestOk ==
    /\ pc = "readManifest"
    /\ LET st  == SubmitAll(Limiter, 1, archive.K)
           out == stderr \o DownloadingLine(archive.K)
       IN  /\ task' = st.task
           /\ jobs' = st.jobs
           /\ outstanding' = st.outstanding
           /\ downloadedCount' = 0
           /\ IF archive.K = 0
              THEN /\ batch' = "resolved"
                   /\ ExpandOverridesStart(out)
              ELSE /\ batch' = "pending"
                   /\ pc' = "awaitAll"
                   /\ stderr' = out
                   /\ UNCHANGED <<ovIdx, error>>
    /\ UNCHANGED <<env, exitCode, args, files, dirs, open>>

ReadManifestFail ==
    /\ pc = "readManifest"
    /\ Throw("io")
    /\ UNCHANGED <<env, exitCode, args, task, jobs, outstanding, batch,
                   downloadedCount, files, dirs, open, ovIdx>>

\* fulfilled with the first promise that is (Promise.any)
PromiseAnyFulfilled(t) == \E j \in Tasks : t[j] = "done"

\* Promise.all(promises) is fulfilled when every promise is
PromiseAllFulfilled(t) == \A j \in Tasks : t[j] = "done"

\* a counter local to each task
IncrementLocal(n) == 1

\* a counter advanced at the start and at the end of a task
IncrementTwice(n) == n + 2

\* ++downloadedCount
Increment(n) == n + 1

\* the promise of task i settles: promise-limit removes the job and starts
\* the oldest queued one
Settle(i, result) ==
    LET st == Remove([Limiter EXCEPT !.task[i] = result])
    IN  /\ task' = st.task
        /\ jobs' = st.jobs
        /\ outstanding' = st.outstanding

\* the task of entry i rejects: Promise.all rejects on the first rejection
\* and downloadMods throws to the top level
Reject(i) ==
    /\ Settle(i, "failed")
    /\ IF batch = "pending"
       THEN /\ batch' = "rejected"
            /\ Throw("io")
       ELSE UNCHANGED <<batch, pc, error, stderr>>

\* await fetchModFileInfo(projectId, fileId) resolved: fetch(downloadUrl)
MetaOk(i) ==
    /\ Alive /\ task[i] = "meta"
    /\ task' = [task EXCEPT ![i] = "fetch"]
    /\ UNCHANGED <<env, exitCode, pc, args, jobs, outstanding, batch,
                   downloadedCount, stderr, files, dirs, open, ovIdx, error, exitCode>>

MetaFail(i) ==
    /\ Alive /\ task[i] = "meta"
    /\ Reject(i)
    /\ UNCHANGED <<env, exitCode, args, downloadedCount, files, dirs,
                   open, ovIdx>>

\* await fetch(modInfo.downloadUrl) resolved: createWriteStream, pipe
FetchOk(i) ==
    /\ Alive /\ task[i] = "fetch"
    /\ task' = [task EXCEPT ![i] = "pipe"]
    /\ open' = open \cup {<<"mod", i>>}
    /\ UNCHANGED <<env, exitCode, pc, args, jobs, outstanding, batch,
                   downloadedCount, stderr, files, dirs, ovIdx, error>>

FetchFail(i) ==
    /\ Alive /\ task[i] = "fetch"
    /\ Reject(i)
    /\ UNCHANGED <<env, exitCode, args, downloadedCount, files, dirs,
                   open, ovIdx>>

\* file "finish": file.close(), the progress line, the task is fulfilled;
\* when it was the last one Promise.all is fulfilled, downloadMods returns
\* and expandOverrides starts
PipeFinish(i) ==
    /\ Alive /\ task[i] = "pipe"
    /\ open' = Close(<<"mod", i>>)
    /\ files' = files \cup {ModPath(i)}
    /\ downloadedCount' = Increment(downloadedCount)
    /\ Settle(i, "done")
    /\ LET out == Append(stderr, Line("count", downloadedCount', archive.K))
       IN  IF batch = "pending" /\ PromiseAllFulfilled(task')
           THEN /\ batch' = "resolved"
                /\ ExpandOverridesStart(out)
           ELSE /\ stderr' = out
                /\ UNCHANGED <<batch, pc, ovIdx, error>>
    /\ UNCHANGED <<env, exitCode, args, dirs>>

\* stream "error": reject, finally file.close()
PipeStreamError(i) ==
    /\ Alive /\ task[i] = "pipe"
    /\ open' = Close(<<"mod", i>>)
    /\ Reject(i)
    /\ UNCHANGED <<env, exitCode, args, downloadedCount, files, dirs,
                   ovIdx>>

\* file "error" (the open or a write failed): downloadMods registers no
\* listener for it, so the event is thrown as an uncaught exception from
\* the event loop and the process ends
PipeFileError(i) ==
    /\ Alive /\ task[i] = "pipe"
    /\ task' = [task EXCEPT ![i] = "writeError"]
    /\ pc' = "crashed"
    /\ error' = "unhandled error event"
    /\ exitCode' = 1
    /\ UNCHANGED <<env, args, jobs, outstanding, batch,
                   downloadedCount, stderr, files, dirs, open, ovIdx>>

(***************************************************************************)
(* expandOverrides (src/index.ts lines 99-133, part_000 lines 62-88).      *)
(***************************************************************************)
EntryFromLast == Entries[Len(Entries) + 1 - ovIdx]
\* for (const [path, fileData] of entries)
Entry == Entries[ovIdx]

\* index.ts line 112; part_000 has no such branch
TakesDirBranch(e) == variant = "bounded" /\ e.dir

\* await mkdir resolved: a directory entry is finished; for a file entry
\* the write stream is created and piped
OvMkdirOk ==
    /\ pc = "ovMkdir"
    /\ IF TakesDirBranch(Entry)
       THEN /\ dirs' = dirs \cup MkdirRecursive(Entry.path)
            /\ LoopAt(ovIdx + 1, stderr)
            /\ open' = open
       ELSE /\ dirs' = dirs \cup MkdirRecursive(Dirname(Entry.path))
            /\ open' = open \cup {<<"ov", ovIdx>>}
            /\ pc' = "ovWrite"
            /\ UNCHANGED <<ovIdx, stderr, error>>
    /\ UNCHANGED <<env, exitCode, args, task, jobs, outstanding, batch,
                   downloadedCount, files>>

OvMkdirFail ==
    /\ pc = "ovMkdir"
    /\ Throw("io")
    /\ UNCHANGED <<env, exitCode, args, task, jobs, outstanding, batch,
                   downloadedCount, files, dirs, open, ovIdx>>

\* fileStream "finish": close, the progress line, the next entry.  A write
\* stream on the path of a directory entry cannot be opened
OvWriteFinish ==
    /\ pc = "ovWrite"
    /\ ~Entry.dir
    /\ files' = files \cup {Entry.path}
    /\ open' = Close(<<"ov", ovIdx>>)
    /\ LoopAt(ovIdx + 1, Append(stderr, Line("path", ovIdx, 0)))
    /\ UNCHANGED <<env, exitCode, args, task, jobs, outstanding, batch,
                   downloadedCount, dirs>>

\* fileStream or stream "error": reject, finally fileStream.close()
OvWriteError ==
    /\ pc = "ovWrite"
    /\ open' = Close(<<"ov", ovIdx>>)
    /\ Throw("io")
    /\ UNCHANGED <<env, exitCode, args, task, jobs, outstanding, batch,
                   downloadedCount, files, dirs, ovIdx>>

(***************************************************************************)
(* The run.                                                                *)
(***************************************************************************)
Init ==
    /\ variant \in {"bounded", "simple"}
    /\ \/ \E p \in RunParts : uri = p /\ argv = Argv(p, TARGET)
       \/ \E u \in UsageArgvs : uri = u.uri /\ argv = u.argv
    /\ archive \in IF variant = "bounded"
                    THEN LargeArchives \cup SmallArchives ELSE SmallArchives
    /\ pc = "start"
    /\ args = NoArgs
    /\ task = [i \in 1..archive.K |-> "none"]
    /\ jobs = << >>
    /\ outstanding = 0
    /\ batch = "none"
    /\ downloadedCount = 0
    /\ stderr = << >>
    /\ files = {}
    /\ dirs = {}
    /\ open = {}
    /\ ovIdx = 0
    /\ error = "none"
    /\ exitCode = "none"

Next ==
    \/ ParseArgs
    \/ FetchInfoOk
    \/ FetchInfoFail
    \/ FetchZipOk
    \/ FetchZipFail
    \/ MkdirModsOk
    \/ MkdirModsFail
    \/ ReadManifestOk
    \/ ReadManifestFail
    \/ \E i \in Tasks : MetaOk(i)
    \/ \E i \in Tasks : MetaFail(i)
    \/ \E i \in Tasks : FetchOk(i)
    \/ \E i \in Tasks : FetchFail(i)
    \/ \E i \in Tasks : PipeFinish(i)
    \/ \E i \in Tasks : PipeStreamError(i)
    \/ \E i \in Tasks : PipeFileError(i)
    \/ OvMkdirOk
    \/ OvMkdirFail
    \/ OvWriteFinish
    \/ OvWriteError

Spec == Init /\ [][Next]_vars

(***************************************************************************)
(* The run under the scheduling of the event loop.  parseCommandLineArgs is *)
(* the synchronous start of the top-level function; every later step is a  *)
(* callback of the event loop, which runs a callback that is ready: an     *)
(* operation that was started ends, in success or in failure, and the step *)
(* that follows it is taken.                                               *)
(***************************************************************************)
InitLive ==
    /\ Init
    /\ uri = ValidParts
    /\ argv.targetDir = TARGET

Scheduled == pc # "start" /\ Next

SpecLive == InitLive /\ [][Next]_vars /\ WF_vars(Scheduled)

(***************************************************************************)
(* parseCommandLineArgs alone, over the command lines of ParseParts.       *)
(***************************************************************************)
InitParse ==
    /\ variant \in {"bounded", "simple"}
    /\ \/ \E p \in ParseParts, t \in {TARGET, << >>} :
             /\ uri = p
             /\ argv = Argv(p, t)
             /\ t = << >> => p.addonId = <<"1">> /\ p.fileId = <<"2">>
       \/ uri = NoParts /\ argv = HelpArgv
    /\ archive = [manifest |-> TRUE, K |-> 0, fileName |-> << >>,
                  overrides |-> OverridesBasic]
    /\ pc = "start"
    /\ args = NoArgs
    /\ task = << >>
    /\ jobs = << >>
    /\ outstanding = 0
    /\ batch = "none"
    /\ downloadedCount = 0
    /\ stderr = << >>
    /\ files = {}
    /\ dirs = {}
    /\ open = {}
    /\ ovIdx = 0
    /\ error = "none"
    /\ exitCode = "none"

NextParse == ParseArgs

SpecParse == InitParse /\ [][NextParse]_vars

(***************************************************************************)
(* Properties.                                                             *)
(***************************************************************************)
OverridePhase == {"ovMkdir", "ovWrite", "finished"}
Thrown == {"caught", "uncaught"}
ModFiles == {f \in files : f[1] = "mods"}
CountLines == SelectSeq(stderr, LAMBDA l : l.kind = "count")
FileEntries == {j \in 1..Len(Entries) : ~Entries[j].dir}

\* C1: in the bounded variant the number of download tasks started and not
\* yet settled is never greater than the limit of 6
C1_InFlightAtMostLimit ==
    variant = "bounded" => Cardinality(InFlight) <= downloadLimitCount

\* six tasks in flight after a completion has started the queued seventh
C1_Witness ==
    /\ variant = "bounded"
    /\ archive.K > downloadLimitCount
    /\ Cardinality(InFlight) = downloadLimitCount
    /\ Done # {}
    /\ Queued = {}

\* C2: when the K downloads have all completed downloadedCount is K and the
\* printed (n/K) values are 1..K, each exactly once
C2_CounterReachesK ==
    (batch # "none" /\ Done = Tasks) =>
        /\ downloadedCount = archive.K
        /\ Len(CountLines) = archive.K
        /\ \A n \in 1..archive.K :
              Cardinality({k \in 1..Len(CountLines) : CountLines[k].n = n}) = 1
        /\ \A k \in 1..Len(CountLines) : CountLines[k].of = archive.K

\* all the downloads of a manifest longer than the limit have completed
C2_Witness ==
    /\ archive.K > downloadLimitCount
    /\ Done = Tasks
    /\ downloadedCount = archive.K

\* C3 as stated: a run that succeeds ends with exactly K files under mods/
\* and the M override files, whatever the fileName values (the override
\* files counted apart from those of mods/)
C3_ExactlyKFiles ==
    pc = "finished" =>
        /\ Cardinality(ModFiles \ {Entries[j].path : j \in FileEntries}) = archive.K
        /\ \A j \in FileEntries : Entries[j].path \in files

\* C3, amended: a run that succeeds ends with exactly the files
\* mods/<fileName of an entry> and the override file entries at their
\* relative paths; they are K files under mods/ when the fileName values
\* are pairwise distinct and no override entry lies under mods/
C3_FilesAreNamesAndOverrides ==
    pc = "finished" =>
        /\ files = {<<"mods", archive.fileName[i]>> : i \in Tasks}
                   \cup {Entries[j].path : j \in FileEntries}
        /\ ( /\ \A i, j \in Tasks : archive.fileName[i] = archive.fileName[j] => i = j
             /\ \A j \in FileEntries : Entries[j].path[1] # "mods" )
           => Cardinality(ModFiles) = archive.K

\* a run that succeeded with two entries of the same fileName and override
\* files
C3_Witness ==
    /\ pc = "finished"
    /\ archive.K = 2
    /\ archive.fileName[1] = archive.fileName[2]
    /\ FileEntries # {}
    /\ Cardinality(ModFiles) = 1

\* the tasks that failed: rejected, or the destination file emitted "error"
TaskFailures == {i \in Tasks : task[i] \in {"failed", "writeError"}}

\* C4: whenever the task of an entry has failed (metadata fetch, download
\* stream or write to the destination) the awaited Promise.all has ended in
\* failure and the run is not in override extraction
C4_FailurePropagates ==
    TaskFailures # {} => batch = "rejected" /\ pc \notin OverridePhase

\* C5: without manifest.json the run fails with "invalid modpack", and no
\* download has been started and no file written under mods/ in any state
C5_InvalidModpack ==
    ~archive.manifest =>
        /\ \A i \in Tasks : task[i] = "none"
        /\ batch = "none"
        /\ ModFiles = {}
        /\ pc \notin ({"readManifest", "awaitAll"} \cup OverridePhase)
        /\ MODS \in dirs => pc \in Thrown /\ error = "invalid modpack"

\* the run of an archive with entries to download but no manifest.json
\* has failed
C5_Witness ==
    /\ ~archive.manifest
    /\ archive.K > 0
    /\ pc \in Thrown
    /\ error = "invalid modpack"

\* C6: without an overrides subtree, once the K mod files are downloaded
\* the run fails with the missing-overrides error and writes no override
C6_MissingOverridesFails ==
    (archive.overrides = NoOverrides /\ batch = "resolved") =>
        /\ pc \in Thrown
        /\ error = "missing overrides in modpack zip"
        /\ Cardinality(ModFiles) = Cardinality({archive.fileName[i] : i \in Tasks})
        /\ files \ ModFiles = {}

\* the place of a line in the order of the phases
PhaseOfLine(l) ==
    CASE l.kind \in {"usage"} -> 0
      [] l.kind \in {"name", "zip"} -> 1
      [] l.kind = "done" -> 2
      [] l.kind = "downloading" -> 3
      [] l.kind = "count" -> 4
      [] l.kind = "expanding" -> 5
      [] l.kind = "path" -> 6
      [] l.kind = "finish" -> 7

BeforeDownload == {"start", "fetchInfo", "fetchZip", "mkdirMods", "readManifest"}

\* C7: the phases run in order: nothing of the download phase exists before
\* the manifest is read, override extraction runs only when every download
\* task has completed, with one write at a time, and the lines of the phases
\* appear in the order of the phases
C7_PhasesInOrder ==
    /\ pc \in BeforeDownload =>
          /\ \A i \in Tasks : task[i] = "none"
          /\ batch = "none" /\ open = {} /\ files = {} /\ ovIdx = 0
    /\ pc = "start" => args = NoArgs
    /\ pc \in BeforeDownload \ {"start"} => args # NoArgs
    /\ pc = "awaitAll" => batch = "pending" /\ ovIdx = 0 /\ files \subseteq ModFiles
    /\ pc \in OverridePhase =>
          /\ InFlight = {} /\ Queued = {} /\ Done = Tasks
          /\ batch = "resolved"
          /\ Cardinality(open) <= 1
    /\ ovIdx > 0 => InFlight = {} /\ Done = Tasks
    /\ \A k \in 1..Len(stderr) - 1 :
          PhaseOfLine(stderr[k]) <= PhaseOfLine(stderr[k + 1])

\* an override file is being written after two or more downloads
C7_Witness ==
    /\ pc = "ovWrite"
    /\ archive.K >= 2
    /\ Done = Tasks
    /\ open # {}

\* C8: after the failure of a download task no queued task is started
C8_NoStartAfterFailure ==
    [][\A i \in Tasks : (Failed' # {} /\ task[i] = "queued") => task'[i] = "queued"]_vars

\* C9: for a directory entry expandOverrides creates the directory and no
\* file, creates no write stream on its path, and goes on to the next entry
C9_DirectoryEntry ==
    \A j \in 1..Len(Entries) :
        Entries[j].dir =>
            /\ ovIdx > j => Entries[j].path \in dirs /\ Entries[j].path \notin files
            /\ ~(ovIdx = j /\ pc = "ovWrite")
            /\ <<"ov", j>> \notin open

\* an identifier text made of letters and digits
PlainId(x) ==
    /\ x # Null /\ x # << >>
    /\ \A k \in 1..Len(x) : x[k] \in Lower \cup Upper \cup Digits

Parsed == pc # "start" /\ argv.url # HELP /\ argv.targetDir # << >>

\* the URI lacks what parseCommandLineArgs requires
Rejectable ==
    \/ LowerCase(uri.scheme) # CURSEFORGE
    \/ uri.host # INSTALL
    \/ uri.addonId = Null
    \/ uri.fileId = Null

RejectsBadURI == (Parsed /\ Rejectable) => pc \in Thrown /\ args = NoArgs

\* C10 as stated: curseforge://install?addonId=X&fileId=Y yields exactly X
\* and Y for every (non-empty) X and Y; any other URI fails
C10_EveryIdReturned ==
    /\ ( /\ Parsed /\ ~Rejectable
         /\ uri.addonId # << >> /\ uri.fileId # << >> )
       => /\ pc = "fetchInfo"
          /\ args.addonId = uri.addonId /\ args.fileId = uri.fileId
    /\ RejectsBadURI

\* C10, amended: X and Y are returned exactly when they are non-empty and
\* made of letters and digits; a URI of another scheme or host, or without
\* addonId or fileId, fails and returns nothing
C10_PlainIdReturned ==
    /\ (Parsed /\ ~Rejectable /\ PlainId(uri.addonId) /\ PlainId(uri.fileId))
       => /\ pc = "fetchInfo"
          /\ args.addonId = uri.addonId /\ args.fileId = uri.fileId
          /\ args.targetDir = argv.targetDir
    /\ RejectsBadURI

\* an identifier of two characters or more was returned
C10_Witness ==
    /\ pc = "fetchInfo"
    /\ Len(uri.addonId) >= 2
    /\ PlainId(uri.addonId)
    /\ args.addonId = uri.addonId
    /\ args.fileId = uri.fileId

\* the command line lacks the URI or the target directory, or asks for help
UsageCase ==
    \/ argv.url \in {Null, << >>, HELP}
    \/ argv.targetDir \in {Null, << >>}

\* C12: when the URI is missing, the target directory is missing, or the
\* first argument is --help, the run prints the usage text on the error
\* stream and ends with exit code 1; the URI is not validated (no error is
\* raised, nothing is parsed), no request is sent and nothing is written.
C12_UsageExit ==
    UsageCase =>
        /\ pc \in {"start", "exit"}
        /\ error = "none"
        /\ args = NoArgs
        /\ files = {} /\ dirs = {} /\ open = {}
        /\ \A i \in Tasks : task[i] = "none"
        /\ pc = "start" => stderr = << >> /\ exitCode = "none"
        /\ pc = "exit" => stderr = <<Line("usage", 0, 0)>> /\ exitCode = 1

\* a URI that would be rejected, with no target directory: usage was printed
C12_Witness ==
    /\ pc = "exit"
    /\ uri = BadParts
    /\ argv.targetDir = Null
    /\ exitCode = 1

\* the lines of the download phase
DownloadLines == SelectSeq(stderr, LAMBDA l : l.kind \in {"downloading", "count"})

OverrideHandles == {h \in open : h[1] = "ov"}
PathLines == SelectSeq(stderr, LAMBDA l : l.kind = "path")
ModTargets == {<<"mods", archive.fileName[i]>> : i \in Tasks}

\* C13: expandOverrides takes the entries one at a time in the order of the
\* archive: at most one override entry is being written, it is the entry
\* the loop is at, every file entry before it is completely written and no
\* file entry after it has been written, and the lines of the entries are
\* in the order of the archive
C13_OneEntryAtATime ==
    /\ Cardinality(OverrideHandles) <= 1
    /\ \A h \in OverrideHandles : pc = "ovWrite" /\ h[2] = ovIdx
    /\ \A j \in FileEntries :
          /\ j < ovIdx => Entries[j].path \in files
          /\ (Entries[j].path \in files /\ Entries[j].path \notin ModTargets)
                => j < ovIdx
    /\ \A k \in 1..Len(PathLines) :
          /\ PathLines[k].n < ovIdx
          /\ k > 1 => PathLines[k - 1].n < PathLines[k].n

\* the second file entry is being written after the first was finished
C13_Witness ==
    /\ pc = "ovWrite"
    /\ OverrideHandles = {<<"ov", ovIdx>>}
    /\ \E j \in FileEntries : j < ovIdx /\ Entries[j].path \in files
    /\ \E j \in FileEntries : j >= ovIdx /\ Entries[j].path \notin files

\* C14: expandOverrides writes exactly one progress line for every entry it
\* has processed, directory entries like file entries, and the line of an
\* entry is written only when the entry is completely written
C14_OneLinePerEntry ==
    \A j \in 1..Len(Entries) :
        LET lines == {k \in 1..Len(PathLines) : PathLines[k].n = j}
        IN  /\ j < ovIdx => Cardinality(lines) = 1
            /\ lines # {} =>
                  /\ j < ovIdx
                  /\ <<"ov", j>> \notin open
                  /\ Entries[j].path \in (IF Entries[j].dir THEN dirs ELSE files)

\* the handles the download tasks hold
ModHandles == {h \in open : h[1] = "mod"}

\* C15 as stated: no handle of a destination file is open once the operation
\* that opened it has returned or failed to its caller: none of a download
\* task once Promise.all has settled, none of an override entry once
\* expandOverrides has returned or thrown
C15_ClosedWhenOperationEnds ==
    /\ batch \in {"resolved", "rejected"} => ModHandles = {}
    /\ pc \in {"finished"} \cup Thrown => OverrideHandles = {}

\* C15, amended: the handle of a destination file is closed by the time the
\* task or the entry that opened it has ended: a task that has completed or
\* has been rejected holds no handle, downloadMods has not returned with a
\* handle open, and expandOverrides holds a handle only while it writes the
\* entry it is at
C15_ClosedWhenTaskEnds ==
    /\ \A i \in Tasks : <<"mod", i>> \in open => task[i] \in {"pipe", "writeError"}
    /\ \A i \in Tasks : task[i] = "pipe" => <<"mod", i>> \in open
    /\ batch = "resolved" => ModHandles = {}
    /\ \A h \in OverrideHandles : pc = "ovWrite" /\ h = <<"ov", ovIdx>>
    /\ pc \in {"finished"} \cup Thrown => OverrideHandles = {}

\* downloadMods has failed to its caller, a task that wrote its file and one
\* whose download stream failed have closed their handles, and a sibling
\* task is still writing
C15_Witness ==
    /\ batch = "rejected"
    /\ pc \in Thrown
    /\ Done # {}
    /\ Failed # {}
    /\ ModHandles # {}
    /\ \A i \in Done \cup Failed : <<"mod", i>> \notin open

\* the tasks waiting for the answer of a network request: the metadata
\* request or the request of the file
PendingRequest == {i \in Tasks : task[i] \in {"meta", "fetch"}}

AfterDownloadLines ==
    SelectSeq(stderr, LAMBDA l : l.kind \in {"expanding", "path", "finish"})

\* C16 as stated: while a network request of a download task has not
\* completed downloadMods has not finished, in success or in failure,
\* override extraction has not started and Finish! is not written, whatever
\* the other tasks have done
C16_StallsWhilePending ==
    PendingRequest # {} =>
        /\ batch = "pending"
        /\ pc \notin OverridePhase \cup Thrown
        /\ AfterDownloadLines = << >>

\* C16, amended: while a network request of a download task has not
\* completed downloadMods has not returned, override extraction has not
\* started and Finish! is not written, whatever the other tasks have done
\* (downloadMods can still end in failure, when another task fails)
C16_NoSuccessWhilePending ==
    PendingRequest # {} =>
        /\ batch \in {"pending", "rejected"}
        /\ batch = "rejected" => Failed # {} /\ pc \in Thrown \cup {"crashed"}
        /\ pc \notin OverridePhase
        /\ ovIdx = 0
        /\ files \subseteq ModFiles
        /\ AfterDownloadLines = << >>

\* every other task of a manifest longer than the limit has completed and
\* one request is still without an answer: the run waits
C16_Witness ==
    /\ archive.K > downloadLimitCount
    /\ Cardinality(PendingRequest) = 1
    /\ Done = Tasks \ PendingRequest
    /\ pc = "awaitAll"
    /\ batch = "pending"

\* the command line is valid and the archive has a manifest
ValidRun ==
    /\ uri = ValidParts
    /\ argv.targetDir = TARGET
    /\ archive.manifest

\* no operation of the run has failed
NoFailure == error = "none" /\ TaskFailures = {}

Finished ==
    /\ pc = "finished"
    /\ Done = Tasks
    /\ downloadedCount = archive.K
    /\ stderr # << >>
    /\ stderr[Len(stderr)] = Line("finish", 0, 0)

\* C17: a run with a valid command line and a manifest of K entries, once
\* its arguments are parsed, eventually writes Finish! with the K downloads
\* all completed and no task left queued or in flight, unless a network or
\* file-system operation fails; for K = 0 and for K above the limit alike
C17_EventuallyFinish ==
    (ValidRun /\ pc = "fetchInfo")
        ~> (~NoFailure \/ (Finished /\ Queued = {} /\ InFlight = {}))

\* the run of a manifest longer than the limit has finished with no failure
C17_Witness ==
    /\ ValidRun
    /\ archive.K > downloadLimitCount
    /\ NoFailure
    /\ Finished

FinishEmitted == \E k \in 1..Len(stderr) : stderr[k].kind = "finish"

\* C18: Finish! is written only in a run without failure: in every state in
\* which it has been written the K per-file lines have been written, no
\* download task is in flight or queued, every override entry has been
\* processed, and no error has been raised or logged
C18_FinishOnlyOnSuccess ==
    FinishEmitted =>
        /\ pc = "finished"
        /\ stderr[Len(stderr)].kind = "finish"
        /\ Len(CountLines) = archive.K
        /\ InFlight = {} /\ Queued = {} /\ TaskFailures = {}
        /\ \A i \in Tasks : task[i] = "done" /\ ModPath(i) \in files
        /\ ovIdx = Len(Entries) + 1
        /\ \A j \in 1..Len(Entries) :
              Entries[j].path \in (IF Entries[j].dir THEN dirs ELSE files)
        /\ open = {}
        /\ error = "none"
        /\ exitCode = "none"

\* Finish! written after downloads and an overrides subtree of a directory
\* and a file
C18_Witness ==
    /\ FinishEmitted
    /\ archive.K >= 2
    /\ \E j \in 1..Len(Entries) : Entries[j].dir
    /\ FileEntries # {}

\* the entries whose destination file is completely written and closed
WriteFinished ==
    {i \in Tasks : /\ task[i] = "done"
                    /\ ModPath(i) \in files
                    /\ <<"mod", i>> \notin open}

\* C19: a task writes its (n/K) line only after its own file is completely
\* written: downloadedCount, and every n written, is at most the number of
\* entries whose file write has finished, and never more than K
C19_CountAtMostFinished ==
    /\ downloadedCount <= Cardinality(WriteFinished)
    /\ downloadedCount <= archive.K
    /\ Len(CountLines) = downloadedCount
    /\ \A k \in 1..Len(CountLines) :
          /\ CountLines[k].n = k
          /\ CountLines[k].n <= Cardinality(WriteFinished)
          /\ CountLines[k].of = archive.K

\* one file is counted and written while another is still being written
C19_Witness ==
    /\ downloadedCount = 1
    /\ Cardinality(WriteFinished) = 1
    /\ \E i \in Tasks : task[i] = "pipe" /\ <<"mod", i>> \in open
    /\ Len(CountLines) = 1

=============================================================================
